---- MODULE Spec2Model ----
(***************************************************************************)
(* Model of src/src/index.ts: the Worker's fetch router, handleChatRequest *)
(* and the transformedStream pump that re-frames the AutoRAG SSE stream.   *)
(***************************************************************************)
EXTENDS Integers, Sequences, FiniteSets, TLC

VARIABLES
    pc,             \* position of the request: "fetch", "awaitJson", "awaitRag", "done"
    request,        \* the incoming Request: [method, path, body]; NoValue once the handler's frame is gone
    response,       \* the Response returned by fetch, NoValue before
    responses,      \* number of Responses returned for the request
    escaped,        \* TRUE when an exception left handleChatRequest uncaught
    query,          \* query of the aiSearch call, NoQuery outside the call
    ragCalls,       \* number of env.AI.autorag(...).aiSearch calls issued
    assetCalls,     \* number of env.ASSETS.fetch calls issued
    assetRequest,   \* the Request handed to env.ASSETS.fetch, NoValue before
    ragOutcome,     \* how the aiSearch call ended: "none", "throws", "nobody", "locked", "body"
    upstream,       \* the bytes of the frames ragResponse.body has begun to deliver
    pos,            \* number of upstream bytes already read
    pump,           \* "idle" (not started), "awaitRead" (reader.read() outstanding), "returned"
    reader,         \* "none" or "locked": the lock taken by getReader()
    decoder,        \* bytes of an incomplete UTF-8 sequence held by the TextDecoder
    outState,       \* state of transformedStream: "none", "readable", "closed", "errored"
    out,            \* chunks enqueued on the controller, in order
    cancelled,      \* the consumer cancelled transformedStream
    readFailed,     \* a reader.read() rejected
    splitChar,      \* some chunk so far ended inside a multi-byte character
    readAfterCancel,\* a reader.read() was issued after the consumer cancelled
    reads,          \* the reader.read() calls not yet settled, each as the number of
                    \* chunks that had been enqueued when it was issued
    peer            \* the transformedStream of a second request in flight: [upstream,
                    \* pos, pump, decoder, outState, out], NoValue when there is none

vars == <<pc, request, response, responses, escaped, query, ragCalls, assetCalls,
          assetRequest, ragOutcome, upstream, pos, pump, reader, decoder, outState, out,
          cancelled, readFailed, splitChar, readAfterCancel, reads, peer>>

reqVars == <<pc, request, response, responses, escaped, query, ragCalls, assetCalls, assetRequest,
            ragOutcome, peer>>

(***************************************************************************)
(* Bounds of the model.                                                    *)
(***************************************************************************)
MaxMsgs == 3
MaxFrames == 2

\* undefined, in a place that otherwise holds an object
NoValue == [undefined |-> TRUE]
\* no query: aiSearch was not called
NoQuery == "undefined"

(***************************************************************************)
(* Requests.                                                               *)
(***************************************************************************)
Roles == {"system", "user", "assistant"}
Contents == {"q1", "q2"}
ChatMessage == [role : Roles, content : Contents]

RECURSIVE SeqsUpTo(_, _)
SeqsUpTo(S, n) ==
    IF n < 0 THEN {}
    ELSE IF n = 0 THEN {<<>>}
    ELSE LET shorter == SeqsUpTo(S, n - 1)
         IN  shorter \cup {Append(s, x) : s \in {t \in shorter : Len(t) = n - 1}, x \in S}

\* request bodies: text that is not JSON, {} (no messages field),
\* {"messages": null}, and {"messages": [...]}
Bodies ==
    {[kind |-> "invalid"], [kind |-> "nofield"], [kind |-> "null"]}
    \cup {[kind |-> "list", messages |-> m] : m \in SeqsUpTo(ChatMessage, MaxMsgs)}

Methods == {"GET", "POST"}
Paths == {"/", "/index.html", "/api", "/api/chat", "/api/other"}

\* a prefix test that forgets the slash that ends the prefix
StartsWithApiNoSlash(path) == path \in {"/api", "/api/chat", "/api/other"}

\* url.pathname.startsWith("/api/")
StartsWithApi(path) == path \in {"/api/chat", "/api/other"}

\* JSON.stringify({ error: msg })
ErrorJson(msg) == [error |-> msg]

FailedToProcess == [kind |-> "json", status |-> 500, body |-> ErrorJson("Failed to process request")]
NoUserMessage == [kind |-> "json", status |-> 400, body |-> ErrorJson("No user message found")]
NoAutoRagResponse == [kind |-> "json", status |-> 500, body |-> ErrorJson("No response received from AutoRAG")]
MethodNotAllowed == [kind |-> "text", status |-> 405, body |-> "Method not allowed"]
NotFound == [kind |-> "text", status |-> 404, body |-> "Not found"]
AssetResponse == [kind |-> "asset", status |-> 200, body |-> "asset"]
StreamResponse == [kind |-> "stream", status |-> 200, body |-> "transformedStream"]

\* const SYSTEM_PROMPT of lines 17-18, as the system-role message it would make
SYSTEM_PROMPT == [role |-> "system", content |-> "SYSTEM_PROMPT"]

\* const { messages = [] } = await request.json()
Messages(body) ==
    IF body.kind = "nofield" THEN <<>> ELSE body.messages

\* messages.filter(msg => msg.role === "user").pop()
FirstUserMessage(messages) ==
    LET users == SelectSeq(messages, LAMBDA msg : msg.role = "user")
    IN  IF users = <<>> THEN NoValue ELSE users[1]

LastMessage(messages) ==
    IF messages = <<>> THEN NoValue ELSE messages[Len(messages)]

LatestUserMessage(messages) ==
    LET users == SelectSeq(messages, LAMBDA msg : msg.role = "user")
    IN  IF users = <<>> THEN NoValue ELSE users[Len(users)]

(***************************************************************************)
(* Text.  A byte is a one-character string for an ASCII byte, or "C3",     *)
(* "A9" for the two bytes of U+00E9; a character is a one-character string *)
(* or "U+00E9", "U+FFFD".                                                  *)
(***************************************************************************)
LF == "\n"
Q == "\""
Whitespace == {" ", "\t", "\r", LF}

DataPrefix == <<"d", "a", "t", "a", ":", " ">>
DoneSentinel == DataPrefix \o <<"[", "D", "O", "N", "E", "]">>
ResponseKey == <<"r", "e", "s", "p", "o", "n", "s", "e">>

\* new TextDecoder().decode(value, { stream: true }) on the held bytes followed
\* by the chunk: what each byte contributes to the text ("" for a byte that is
\* held back or that completes the sequence its predecessor began)
DecodedAt(bytes, i) ==
    CASE bytes[i] = "C3" ->
            IF i = Len(bytes) THEN ""
            ELSE IF bytes[i + 1] = "A9" THEN "U+00E9" ELSE "U+FFFD"
      [] bytes[i] = "A9" ->
            IF i > 1 /\ bytes[i - 1] = "C3" THEN "" ELSE "U+FFFD"
      [] OTHER -> bytes[i]

DecodeBytes(bytes) ==
    [text |-> SelectSeq([i \in 1..Len(bytes) |-> DecodedAt(bytes, i)], LAMBDA c : c # ""),
     pending |-> IF bytes # <<>> /\ bytes[Len(bytes)] = "C3" THEN <<"C3">> ELSE <<>>]

Decode(held, chunk) == DecodeBytes(held \o chunk)

\* new TextEncoder().encode(text)
RECURSIVE Encode(_)
Encode(text) ==
    IF text = <<>> THEN <<>>
    ELSE (CASE Head(text) = "U+00E9" -> <<"C3", "A9">>
            [] Head(text) = "U+FFFD" -> <<"EF", "BF", "BD">>
            [] OTHER -> <<Head(text)>>) \o Encode(Tail(text))

\* chunk.split('\n')
RECURSIVE SplitFrom(_, _, _)
SplitFrom(text, start, i) ==
    IF i > Len(text) THEN <<SubSeq(text, start, Len(text))>>
    ELSE IF text[i] = LF
         THEN <<SubSeq(text, start, i - 1)>> \o SplitFrom(text, i + 1, i + 1)
         ELSE SplitFrom(text, start, i + 1)

Split(text) == SplitFrom(text, 1, 1)

\* String.prototype.trim
RECURSIVE TrimStart(_, _)
TrimStart(s, i) ==
    IF i <= Len(s) /\ s[i] \in Whitespace THEN TrimStart(s, i + 1) ELSE i

RECURSIVE TrimEnd(_, _)
TrimEnd(s, i) ==
    IF i >= 1 /\ s[i] \in Whitespace THEN TrimEnd(s, i - 1) ELSE i

Trim(s) == SubSeq(s, TrimStart(s, 1), TrimEnd(s, Len(s)))

\* String.prototype.startsWith
StartsWith(s, prefix) ==
    Len(s) >= Len(prefix) /\ SubSeq(s, 1, Len(prefix)) = prefix

\* line.replace(/^data: /, '').trim()
CleanLine(line) ==
    Trim(IF StartsWith(line, DataPrefix)
         THEN SubSeq(line, Len(DataPrefix) + 1, Len(line))
         ELSE line)

\* a JSON string literal without escape sequences (the alphabet has no backslash)
IsStringLiteral(s) ==
    /\ Len(s) >= 2
    /\ s[1] = Q
    /\ s[Len(s)] = Q
    /\ \A i \in 2..(Len(s) - 1) : s[i] \notin {Q, LF, "\t", "\r"}

StringValue(s) == SubSeq(s, 2, Len(s) - 1)

\* the positions of a ':' that separates a string key from a string value
MemberColons(inner) ==
    {i \in 1..Len(inner) :
        /\ inner[i] = ":"
        /\ IsStringLiteral(Trim(SubSeq(inner, 1, i - 1)))
        /\ IsStringLiteral(Trim(SubSeq(inner, i + 1, Len(inner))))}

\* JSON.parse(cleanLine) over string literals and objects of at most one
\* string member, every other text being a SyntaxError; for a parsed value,
\* response is what data.response evaluates to
JSONParse(s) ==
    LET t == Trim(s)
    IN  IF IsStringLiteral(t) THEN [ok |-> TRUE, response |-> NoValue]
        ELSE IF Len(t) >= 2 /\ t[1] = "{" /\ t[Len(t)] = "}"
             THEN LET inner == Trim(SubSeq(t, 2, Len(t) - 1))
                  IN  IF inner = <<>> THEN [ok |-> TRUE, response |-> NoValue]
                      ELSE IF MemberColons(inner) = {} THEN [ok |-> FALSE, response |-> NoValue]
                      ELSE LET i == CHOOSE k \in MemberColons(inner) : TRUE
                               key == StringValue(Trim(SubSeq(inner, 1, i - 1)))
                               val == StringValue(Trim(SubSeq(inner, i + 1, Len(inner))))
                           IN  [ok |-> TRUE,
                                response |-> IF key = ResponseKey THEN [string |-> val] ELSE NoValue]
             ELSE [ok |-> FALSE, response |-> NoValue]

\* if (data.response): undefined and the empty string are falsy
Truthy(v) == v # NoValue /\ v.string # <<>>

\* JSON.stringify({ response: data.response })
JSONStringify(v) == <<"{", Q>> \o ResponseKey \o <<Q, ":", Q>> \o v.string \o <<Q, "}">>

\* lines 112-129 for one line: what happens in the body of the for loop.
\* "skip" (the if of line 112 or 116 or 120 is false), "throw" (JSON.parse or
\* controller.enqueue threw into the catch of line 125), or "enqueue"
LineStep(line, canEnqueue) ==
    IF Trim(line) = <<>> \/ StartsWith(line, DoneSentinel) THEN [what |-> "skip"]
    ELSE LET cleanLine == CleanLine(line)
             data == JSONParse(cleanLine)
         IN  IF cleanLine = <<>> THEN [what |-> "skip"]
             ELSE IF ~data.ok THEN [what |-> "throw"]
             ELSE IF ~Truthy(data.response) THEN [what |-> "skip"]
             ELSE IF ~canEnqueue THEN [what |-> "throw"]
             ELSE [what |-> "enqueue",
                   chunk |-> Encode(JSONStringify(data.response) \o <<LF>>)]

\* a loop whose catch leaves the loop instead of continuing
RECURSIVE ProcessLinesAbort(_, _)
ProcessLinesAbort(lines, canEnqueue) ==
    IF lines = <<>> THEN <<>>
    ELSE LET r == LineStep(Head(lines), canEnqueue)
         IN  IF r.what = "throw" THEN <<>>
             ELSE (IF r.what = "enqueue" THEN <<r.chunk>> ELSE <<>>)
                  \o ProcessLinesAbort(Tail(lines), canEnqueue)

\* for (const line of lines) { ... }: the chunks enqueued, in order
RECURSIVE ProcessLines(_, _)
ProcessLines(lines, canEnqueue) ==
    IF lines = <<>> THEN <<>>
    ELSE LET r == LineStep(Head(lines), canEnqueue)
         IN  (IF r.what = "enqueue" THEN <<r.chunk>> ELSE <<>>)
             \o ProcessLines(Tail(lines), canEnqueue)

(***************************************************************************)
(* Upstream frames.                                                        *)
(***************************************************************************)
ResponseFrame(payload) ==
    DataPrefix \o <<"{", Q>> \o ResponseKey \o <<Q, ":", Q>> \o payload \o <<Q, "}", LF>>
MalformedFrame ==
    DataPrefix \o <<"{", "n", "o", "t", " ", "j", "s", "o", "n", "}", LF>>
DoneFrame == DoneSentinel \o <<LF>>

\* the data frames by name: payloads "a", U+00E9 and "", and a frame that is not JSON
DataFrames == {"a", "e-acute", "empty", "malformed"}
Frame(name) ==
    CASE name = "a" -> ResponseFrame(<<"a">>)
      [] name = "e-acute" -> ResponseFrame(<<"C3", "A9">>)
      [] name = "empty" -> ResponseFrame(<<>>)
      [] name = "malformed" -> MalformedFrame
      [] name = "done" -> DoneFrame

RECURSIVE Flatten(_)
Flatten(names) == IF names = <<>> THEN <<>> ELSE Frame(Head(names)) \o Flatten(Tail(names))

(***************************************************************************)
(* The request: fetch and handleChatRequest.                               *)
(***************************************************************************)
streamVars == <<upstream, pos, pump, reader, decoder, outState, out,
                cancelled, readFailed, splitChar, readAfterCancel, reads>>

Init ==
    /\ pc = "fetch"
    /\ request \in [method : Methods, path : Paths, body : Bodies]
    /\ response = NoValue
    /\ responses = 0
    /\ escaped = FALSE
    /\ query = NoQuery
    /\ ragCalls = 0
    /\ assetCalls = 0
    /\ assetRequest = NoValue
    /\ ragOutcome = "none"
    /\ upstream = <<>>
    /\ pos = 0
    /\ pump = "idle"
    /\ reader = "none"
    /\ decoder = <<>>
    /\ outState = "none"
    /\ out = <<>>
    /\ cancelled = FALSE
    /\ readFailed = FALSE
    /\ splitChar = FALSE
    /\ readAfterCancel = FALSE
    /\ reads = <<>>
    /\ peer = NoValue

\* return r: the request ends with the Response r
Respond(r) ==
    /\ pc' = "done"
    /\ response' = r
    /\ responses' = responses + 1

\* an exception that leaves handleChatRequest instead of reaching its catch
Uncaught ==
    /\ pc' = "done"
    /\ escaped' = TRUE
    /\ UNCHANGED <<response, responses>>

\* catch (error) { ... } of lines 160-169
Caught ==
    /\ Respond(FailedToProcess)
    /\ UNCHANGED escaped

\* lines 29-34: static assets
FetchAsset ==
    /\ pc = "fetch"
    /\ request.path = "/" \/ ~StartsWithApi(request.path)
    /\ assetCalls' = assetCalls + 1
    /\ assetRequest' = request
    /\ Respond(AssetResponse)
    /\ UNCHANGED <<request, escaped, query, ragCalls, ragOutcome, streamVars, peer>>

\* a route that forgets the test of the method
FetchChatAnyMethod ==
    /\ pc = "fetch"
    /\ ~(request.path = "/" \/ ~StartsWithApi(request.path))
    /\ request.path = "/api/chat"
    /\ pc' = "awaitJson"
    /\ UNCHANGED <<request, response, responses, escaped, query, ragCalls, assetCalls,
                   assetRequest, ragOutcome, streamVars, peer>>

\* lines 37-41: POST /api/chat enters handleChatRequest, which awaits request.json()
FetchChat ==
    /\ pc = "fetch"
    /\ ~(request.path = "/" \/ ~StartsWithApi(request.path))
    /\ request.path = "/api/chat"
    /\ request.method = "POST"
    /\ pc' = "awaitJson"
    /\ UNCHANGED <<request, response, responses, escaped, query, ragCalls, assetCalls,
                   assetRequest, ragOutcome, streamVars, peer>>

\* line 44
FetchMethodNotAllowed ==
    /\ pc = "fetch"
    /\ ~(request.path = "/" \/ ~StartsWithApi(request.path))
    /\ request.path = "/api/chat"
    /\ request.method # "POST"
    /\ Respond(MethodNotAllowed)
    /\ UNCHANGED <<request, escaped, query, ragCalls, assetCalls, assetRequest, ragOutcome, streamVars, peer>>

\* line 48
FetchNotFound ==
    /\ pc = "fetch"
    /\ ~(request.path = "/" \/ ~StartsWithApi(request.path))
    /\ request.path # "/api/chat"
    /\ Respond(NotFound)
    /\ UNCHANGED <<request, escaped, query, ragCalls, assetCalls, assetRequest, ragOutcome, streamVars, peer>>

\* line 61: request.json() rejects, or the body is null and cannot be
\* destructured; line 66: messages is null and has no filter
JsonThrows ==
    /\ pc = "awaitJson"
    /\ request.body.kind \in {"invalid", "null"}
    /\ Caught
    /\ UNCHANGED <<request, query, ragCalls, assetCalls, assetRequest, ragOutcome, streamVars, peer>>

\* lines 66-76
NoUser ==
    /\ pc = "awaitJson"
    /\ request.body.kind \in {"nofield", "list"}
    /\ LatestUserMessage(Messages(request.body)) = NoValue
    /\ Respond(NoUserMessage)
    /\ UNCHANGED <<request, escaped, query, ragCalls, assetCalls, assetRequest, ragOutcome, streamVars, peer>>

\* lines 66-87: the aiSearch call is issued and awaited
CallAiSearch ==
    /\ pc = "awaitJson"
    /\ request.body.kind \in {"nofield", "list"}
    /\ LatestUserMessage(Messages(request.body)) # NoValue
    /\ query' = LatestUserMessage(Messages(request.body)).content
    /\ ragCalls' = ragCalls + 1
    /\ pc' = "awaitRag"
    /\ UNCHANGED <<request, response, responses, escaped, assetCalls, assetRequest, ragOutcome, streamVars, peer>>

\* lines 79-87: the object handed to aiSearch while the call is awaited (and
\* kept by a handler the call ended): a query and search options, and no
\* message list
AiSearchParams ==
    IF query = NoQuery THEN NoValue
    ELSE [query |-> query,
          rewrite_query |-> TRUE,
          max_num_results |-> 5,
          ranking_options |-> [score_threshold |-> "0.3"],
          stream |-> TRUE]

\* a handler that calls aiSearch again when the call threw
AiSearchThrowsRetry ==
    /\ pc = "awaitRag"
    /\ ragOutcome' = "throws"
    /\ ragCalls' = ragCalls + 1
    /\ UNCHANGED <<pc, request, response, responses, escaped, query, assetCalls, assetRequest,
                   streamVars, peer>>

\* line 79 throws or rejects
AiSearchThrows ==
    /\ pc = "awaitRag"
    /\ ragOutcome' = "throws"
    /\ Caught
    /\ UNCHANGED <<request, query, ragCalls, assetCalls, assetRequest, streamVars, peer>>

\* a handler without the test of line 90: getReader is called on null
AiSearchNoBodyUnchecked ==
    /\ pc = "awaitRag"
    /\ ragOutcome' = "nobody"
    /\ Caught
    /\ UNCHANGED <<request, query, ragCalls, assetCalls, assetRequest, streamVars, peer>>

\* lines 90, 152-159: ragResponse.body is null
AiSearchNoBody ==
    /\ pc = "awaitRag"
    /\ ragOutcome' = "nobody"
    /\ Respond(NoAutoRagResponse)
    /\ UNCHANGED <<request, escaped, query, ragCalls, assetCalls, assetRequest, streamVars, peer>>

\* lines 92-94: getReader() throws on a locked body, start rethrows it out
\* of the ReadableStream constructor
GetReaderThrows ==
    /\ pc = "awaitRag"
    /\ ragOutcome' = "locked"
    /\ Caught
    /\ UNCHANGED <<request, query, ragCalls, assetCalls, assetRequest, streamVars, peer>>

\* lines 90-149: the stream is constructed, start takes the reader and the
\* first pump() issues the first read; the Response is returned and the
\* handler's frame (request, messages, latestUserMessage) is gone
ReturnStream ==
    /\ pc = "awaitRag"
    /\ ragOutcome' = "body"
    /\ reader' = "locked"
    /\ decoder' = <<>>
    /\ outState' = "readable"
    /\ pump' = "awaitRead"
    /\ reads' = <<Len(out)>>
    /\ Respond(StreamResponse)
    /\ request' = NoValue
    /\ query' = NoQuery
    /\ UNCHANGED <<escaped, ragCalls, assetCalls, assetRequest, upstream, pos, out, cancelled,
                   readFailed, splitChar, readAfterCancel, peer>>

(***************************************************************************)
(* The pump of transformedStream.                                          *)
(***************************************************************************)
\* the frames the upstream may deliver next: none once the terminator has
\* been sent, else data frames and then the terminator or nothing, up to
\* MaxFrames frames in all
Terminated(bytes) ==
    /\ Len(bytes) >= Len(DoneFrame)
    /\ SubSeq(bytes, Len(bytes) - Len(DoneFrame) + 1, Len(bytes)) = DoneFrame

FrameCount(bytes) == Cardinality({i \in 1..Len(bytes) : bytes[i] = LF})

Extensions(bytes) ==
    IF Terminated(bytes) THEN {<<>>}
    ELSE LET left == MaxFrames - FrameCount(bytes)
         IN  SeqsUpTo(DataFrames, left)
             \cup {Append(frames, "done") : frames \in SeqsUpTo(DataFrames, left - 1)}

\* a pump that calls pump() before the loop over the lines
PumpChunkReadsFirst ==
    /\ pump = "awaitRead"
    /\ \E ext \in Extensions(upstream) :
         LET all == upstream \o Flatten(ext)
             lastStart == IF ext = <<>> THEN pos ELSE Len(all) - Len(Frame(ext[Len(ext)]))
         IN  \E n \in (lastStart - pos + 1)..(Len(all) - pos) :
               \E d \in {Decode(decoder, SubSeq(all, pos + 1, pos + n))} :
               \E lines \in {Split(d.text)} :
                   /\ n >= 1
                   /\ upstream' = all
                   /\ out' = out \o ProcessLines(lines, outState = "readable")
                   /\ decoder' = d.pending
                   /\ pos' = pos + n
                   /\ splitChar' = (splitChar \/ d.pending # <<>>)
    /\ readAfterCancel' = (readAfterCancel \/ cancelled)
    /\ reads' = Append(Tail(reads), Len(out))
    /\ UNCHANGED <<reqVars, pump, reader, outState, cancelled, readFailed>>

\* lines 99-133 with done = false: a chunk of n bytes, reaching into the
\* last frame begun, is decoded, split and processed, and pump() issues the
\* next read
PumpChunk ==
    /\ pump = "awaitRead"
    /\ \E ext \in Extensions(upstream) :
         LET all == upstream \o Flatten(ext)
             lastStart == IF ext = <<>> THEN pos ELSE Len(all) - Len(Frame(ext[Len(ext)]))
         IN  \E n \in (lastStart - pos + 1)..(Len(all) - pos) :
               \E d \in {Decode(decoder, SubSeq(all, pos + 1, pos + n))} :
               \E lines \in {Split(d.text)} :
                   /\ n >= 1
                   /\ upstream' = all
                   /\ out' = out \o ProcessLines(lines, outState = "readable")
                   /\ decoder' = d.pending
                   /\ pos' = pos + n
                   /\ splitChar' = (splitChar \/ d.pending # <<>>)
    /\ readAfterCancel' = (readAfterCancel \/ cancelled)
    /\ reads' = Append(Tail(reads), Len(out'))
    /\ UNCHANGED <<reqVars, pump, reader, outState, cancelled, readFailed>>

\* a pump without the return of line 103: it goes on to the next read
PumpDoneNoReturn ==
    /\ pump = "awaitRead"
    /\ pos = Len(upstream)
    /\ outState' = (IF outState = "readable" THEN "closed" ELSE outState)
    /\ reads' = Append(Tail(reads), Len(out))
    /\ UNCHANGED <<reqVars, upstream, pos, pump, reader, decoder, out, cancelled, readFailed,
                   splitChar, readAfterCancel>>

\* lines 99-104 with done = true: controller.close(), which throws on a
\* stream that is no longer readable, into controller.error of line 135,
\* which does nothing on such a stream
PumpDone ==
    /\ pump = "awaitRead"
    /\ pos = Len(upstream)
    /\ outState' = (IF outState = "readable" THEN "closed" ELSE outState)
    /\ pump' = "returned"
    /\ reads' = Tail(reads)
    /\ UNCHANGED <<reqVars, upstream, pos, reader, decoder, out, cancelled, readFailed,
                   splitChar, readAfterCancel>>

\* lines 99, 134-136: reader.read() rejects
PumpError ==
    /\ pump = "awaitRead"
    /\ readFailed' = TRUE
    /\ outState' = (IF outState = "readable" THEN "errored" ELSE outState)
    /\ pump' = "returned"
    /\ reads' = Tail(reads)
    /\ UNCHANGED <<reqVars, upstream, pos, reader, decoder, out, cancelled, splitChar,
                   readAfterCancel>>

\* the consumer cancels transformedStream: the underlying source of lines
\* 92-141 has no cancel(), so the stream closes and nothing else changes
Cancel ==
    /\ outState = "readable"
    /\ outState' = "closed"
    /\ cancelled' = TRUE
    /\ UNCHANGED <<reqVars, upstream, pos, pump, reader, decoder, out, readFailed,
                   splitChar, readAfterCancel, reads>>

Next ==
    \/ FetchAsset
    \/ FetchChat
    \/ FetchMethodNotAllowed
    \/ FetchNotFound
    \/ JsonThrows
    \/ NoUser
    \/ CallAiSearch
    \/ AiSearchThrows
    \/ AiSearchNoBody
    \/ GetReaderThrows
    \/ ReturnStream
    \/ PumpChunk
    \/ PumpDone
    \/ PumpError
    \/ Cancel

Spec == Init /\ [][Next]_vars

(***************************************************************************)
(* Two requests in flight: each call of handleChatRequest builds its own   *)
(* transformedStream, whose start has its own reader, decoder and          *)
(* controller (lines 92-95); the pumps run as the reads resolve.           *)
(***************************************************************************)
ownVars == <<pc, request, response, responses, escaped, query, ragCalls, assetCalls,
             assetRequest, ragOutcome, streamVars>>

\* the upstreams of the two requests, delivered in full before the first read
OwnUpstreams == {Flatten(<<"e-acute", "done">>), Flatten(<<"a", "done">>)}
PeerUpstreams == {Frame("e-acute"), Frame("a")}

\* both handlers have returned their stream (ReturnStream) and each pump
\* awaits its first read
InitConcurrent ==
    /\ pc = "done"
    /\ request = NoValue
    /\ response = StreamResponse
    /\ responses = 1
    /\ escaped = FALSE
    /\ query = NoQuery
    /\ ragCalls = 1
    /\ assetCalls = 0
    /\ assetRequest = NoValue
    /\ ragOutcome = "body"
    /\ upstream \in OwnUpstreams
    /\ pos = 0
    /\ pump = "awaitRead"
    /\ reader = "locked"
    /\ decoder = <<>>
    /\ outState = "readable"
    /\ out = <<>>
    /\ cancelled = FALSE
    /\ readFailed = FALSE
    /\ splitChar = FALSE
    /\ readAfterCancel = FALSE
    /\ reads = <<0>>
    /\ peer \in [upstream : PeerUpstreams, pos : {0}, pump : {"awaitRead"},
                  decoder : {<<>>}, outState : {"readable"}, out : {<<>>}]

\* one TextDecoder for the module, left as the other request's pump left it
SharedDecoder == decoder

\* line 95: the decoder start made for the second request's stream
PeerDecoder == peer.decoder

\* lines 99-133 with done = false, in the second request's pump
PeerPumpChunk ==
    /\ peer.pump = "awaitRead"
    /\ \E n \in 1..(Len(peer.upstream) - peer.pos) :
         \E d \in {Decode(PeerDecoder, SubSeq(peer.upstream, peer.pos + 1, peer.pos + n))} :
         \E lines \in {Split(d.text)} :
             peer' = [peer EXCEPT !.pos = @ + n,
                                  !.decoder = d.pending,
                                  !.out = @ \o ProcessLines(lines, peer.outState = "readable")]
    /\ UNCHANGED ownVars

\* lines 99-104 with done = true, in the second request's pump
PeerPumpDone ==
    /\ peer.pump = "awaitRead"
    /\ peer.pos = Len(peer.upstream)
    /\ peer' = [peer EXCEPT !.pump = "returned",
                            !.outState = IF @ = "readable" THEN "closed" ELSE @]
    /\ UNCHANGED ownVars

NextConcurrent ==
    \/ PumpChunk
    \/ PumpDone
    \/ PeerPumpChunk
    \/ PeerPumpDone

SpecConcurrent == InitConcurrent /\ [][NextConcurrent]_vars

(***************************************************************************)
(* Properties of handleChatRequest.                                        *)
(***************************************************************************)
\* the request is a POST /api/chat whose handler has gone past request.json()
ChatHandled ==
    /\ request # NoValue
    /\ request.method = "POST"
    /\ request.path = "/api/chat"
    /\ pc \in {"awaitRag", "done"}

\* the body parsed to an object whose messages (the empty list when the
\* field is missing) hold no user message
NoUserInBody ==
    /\ request.body.kind \in {"nofield", "list"}
    /\ request.body.kind = "list" =>
         \A i \in 1..Len(request.body.messages) : request.body.messages[i].role # "user"

\* C1: a POST /api/chat whose messages hold no user-role element (a missing
\* messages field included) is answered 400 {error: "No user message found"}
\* and no collaborator is called for it.
NoUserMessageIs400 ==
    (ChatHandled /\ NoUserInBody) =>
        /\ pc = "done"
        /\ response = NoUserMessage
        /\ responses = 1
        /\ ragCalls = 0
        /\ assetCalls = 0
        /\ outState = "none"

NoUserMessageIs400Witness ==
    /\ ChatHandled
    /\ request.body.kind = "list"
    /\ Len(request.body.messages) = 2
    /\ NoUserInBody
    /\ response = NoUserMessage
    /\ ragCalls = 0

\* C2: the query of the aiSearch call is the content of the user-role
\* message with the greatest index, whatever is interleaved around it.
QueryIsLastUserMessage ==
    (ChatHandled /\ ragCalls > 0) =>
        \E i \in 1..Len(request.body.messages) :
            /\ request.body.messages[i].role = "user"
            /\ \A j \in (i + 1)..Len(request.body.messages) :
                   request.body.messages[j].role # "user"
            /\ query = request.body.messages[i].content

QueryIsLastUserMessageWitness ==
    /\ ChatHandled
    /\ pc = "awaitRag"
    /\ Len(request.body.messages) = 3
    /\ request.body.messages[1].role = "user"
    /\ request.body.messages[2].role = "user"
    /\ request.body.messages[3].role = "assistant"
    /\ request.body.messages[1].content # request.body.messages[2].content
    /\ query = request.body.messages[2].content

\* C3: a retrieval call that throws does not fail the request: the handler
\* still answers with the model's response, not with an error status.
RetrievalFailureIsAbsorbed ==
    (pc = "done" /\ ragOutcome = "throws") => response.status < 400

\* C4: when request.json() fails or a later step of handleChatRequest
\* throws, exactly one response is returned, it is 500 {error: "Failed to
\* process request"}, and no exception leaves the handler.
ThrowIs500 ==
    /\ ~escaped
    /\ responses <= 1
    /\ pc = "done" => responses = 1
    /\ (ChatHandled /\ request.body.kind \in {"invalid", "null"}) =>
           (pc = "done" /\ response = FailedToProcess)
    /\ ragOutcome \in {"throws", "locked"} =>
           (pc = "done" /\ response = FailedToProcess)

ThrowIs500Witness ==
    /\ ChatHandled
    /\ request.body.kind = "invalid"
    /\ pc = "done"
    /\ response = FailedToProcess
    /\ responses = 1

\* C11: the message list handed to the inference call holds a system-role
\* message: SYSTEM_PROMPT at index 0 ahead of the input messages when the
\* conversation has none, and no second one when it has one.
PromptHasSystemMessage ==
    AiSearchParams # NoValue =>
        /\ "messages" \in DOMAIN AiSearchParams
        /\ LET input == Messages(request.body)
               passed == AiSearchParams.messages
               hasSystem == \E i \in 1..Len(input) : input[i].role = "system"
           IN  passed = (IF hasSystem THEN input ELSE <<SYSTEM_PROMPT>> \o input)

\* the aiSearch call returned a response without a body and the handler
\* answered 500 with the JSON body {error: msg}, building no stream
NoBodyAnsweredWith(msg) ==
    ragOutcome = "nobody" =>
        /\ pc = "done"
        /\ response = [kind |-> "json", status |-> 500, body |-> ErrorJson(msg)]
        /\ responses = 1
        /\ ragCalls = 1
        /\ outState = "none"
        /\ reader = "none"
        /\ pump = "idle"

\* C14, as stated: an aiSearch response without a body is answered 500
\* {error: "No response received"} and no translated stream is built.
NoBodyIsNoResponseReceived == NoBodyAnsweredWith("No response received")

\* C14, amended: an aiSearch response without a body is answered 500
\* {error: "No response received from AutoRAG"} and no translated stream is
\* built.
NoBodyIsNoResponseFromAutoRag == NoBodyAnsweredWith("No response received from AutoRAG")

NoBodyIsNoResponseFromAutoRagWitness ==
    /\ ragOutcome = "nobody"
    /\ pc = "done"
    /\ response = NoAutoRagResponse
    /\ response.body.error = "No response received from AutoRAG"
    /\ outState = "none"

(***************************************************************************)
(* Properties of the router.                                               *)
(***************************************************************************)
\* the paths that are the root or do not begin with /api/
StaticPaths == {"/", "/index.html", "/api"}

\* C12: a request for the root or for a path outside /api/, whatever its
\* method, is handed to env.ASSETS.fetch exactly once, as the request object
\* it came as, and is answered by it; handleChatRequest is never entered
\* and aiSearch never called.
StaticPathGoesToAssets ==
    (request # NoValue /\ request.path \in StaticPaths) =>
        /\ pc \in {"fetch", "done"}
        /\ ragCalls = 0
        /\ query = NoQuery
        /\ outState = "none"
        /\ pc = "fetch" => (assetCalls = 0 /\ responses = 0 /\ ENABLED FetchAsset)
        /\ pc = "done" =>
               /\ assetCalls = 1
               /\ assetRequest = request
               /\ response = AssetResponse
               /\ responses = 1

StaticPathGoesToAssetsWitness ==
    /\ request # NoValue
    /\ request.path = "/api"
    /\ request.method = "POST"
    /\ pc = "done"
    /\ assetCalls = 1
    /\ assetRequest = request
    /\ response = AssetResponse

\* the outcome the router owes a method and a path
Route(method, path) ==
    IF path \in StaticPaths THEN "assets"
    ELSE IF path = "/api/chat" THEN (IF method = "POST" THEN "chat" ELSE "405")
    ELSE "404"

\* the number of branches of fetch the request can take
RoutesEnabled ==
    (IF ENABLED FetchAsset THEN 1 ELSE 0)
    + (IF ENABLED FetchChat THEN 1 ELSE 0)
    + (IF ENABLED FetchMethodNotAllowed THEN 1 ELSE 0)
    + (IF ENABLED FetchNotFound THEN 1 ELSE 0)

\* C13: every request takes exactly one of the four branches of fetch, the
\* one its method and path decide: POST /api/chat enters handleChatRequest,
\* any other method on /api/chat is answered 405 "Method not allowed" with
\* no body read and no collaborator called, and any other path under /api/
\* is answered 404 "Not found" whatever the method.
RouteIsFunctionOfMethodAndPath ==
    request # NoValue =>
        LET route == Route(request.method, request.path)
        IN  /\ pc = "fetch" => RoutesEnabled = 1
            /\ route = "chat" =>
                   /\ pc = "fetch" => ENABLED FetchChat
                   /\ assetCalls = 0
                   /\ response \notin {AssetResponse, MethodNotAllowed, NotFound}
            /\ route # "chat" =>
                   /\ pc \in {"fetch", "done"}
                   /\ ragCalls = 0
                   /\ outState = "none"
                   /\ pc = "done" => responses = 1
            /\ route = "405" =>
                   /\ assetCalls = 0
                   /\ pc = "done" => response = MethodNotAllowed
            /\ route = "404" =>
                   /\ assetCalls = 0
                   /\ pc = "done" => response = NotFound
            /\ route = "assets" =>
                   (pc = "done" => response = AssetResponse)

RouteIsFunctionOfMethodAndPathWitness ==
    /\ request # NoValue
    /\ request.method = "GET"
    /\ request.path = "/api/chat"
    /\ request.body.kind = "list"
    /\ pc = "done"
    /\ response = MethodNotAllowed
    /\ responses = 1

(***************************************************************************)
(* Properties of the stream translator.                                    *)
(***************************************************************************)
\* the text {"response":"payload"}
ObjectText(payload) == <<"{", Q>> \o ResponseKey \o <<Q, ":", Q>> \o payload \o <<Q, "}">>

\* the outward line of a frame: the bytes of the frame after "data: "
OutputLine(frame) == SubSeq(frame, Len(DataPrefix) + 1, Len(frame))

\* the pump returned after end-of-input, on a stream nobody cancelled
EndedCleanly == pump = "returned" /\ ~readFailed /\ ~cancelled

\* the frames delivered, each without its line feed (all bytes were read)
UpstreamLines == SubSeq(Split(upstream), 1, FrameCount(upstream))

\* the upstream was response frames followed by the terminator
ResponseFramesThenDone ==
    /\ Terminated(upstream)
    /\ \A i \in 1..(Len(UpstreamLines) - 1) :
           UpstreamLines[i] \o <<LF>> # MalformedFrame

\* C5: for response frames followed by data: [DONE] and end-of-input, the
\* outward stream carries one line {"response":x} per frame, in order,
\* nothing for the terminator, and is then closed.
RoundTrip ==
    (EndedCleanly /\ ResponseFramesThenDone) =>
        /\ outState = "closed"
        /\ out = [i \in 1..(Len(UpstreamLines) - 1) |->
                     OutputLine(UpstreamLines[i] \o <<LF>>)]

\* C6: the outward lines depend on the upstream bytes alone: whatever the
\* chunk boundaries were, they are the lines the same bytes give as one chunk.
ChunkingIndependent ==
    EndedCleanly =>
        out = ProcessLines(Split(DecodeBytes(upstream).text), TRUE)

\* C7: a frame whose multi-byte character was split at a chunk boundary
\* still gets its outward line, with the character intact.
SplitCharacterSurvives ==
    (EndedCleanly /\ splitChar /\ upstream = Frame("e-acute")) =>
        out = <<OutputLine(Frame("e-acute"))>>

\* a line of bytes that is a response frame with a non-empty payload:
\* stripped of "data: " and of blanks it is {"response":"payload"}
ValidLine(line) ==
    \E clean \in {CleanLine(line)} :
        /\ Len(clean) > Len(ObjectText(<<>>))
        /\ clean = ObjectText(SubSeq(clean, Len(ObjectText(<<>>)) - 1, Len(clean) - 2))
        /\ \A i \in (Len(ObjectText(<<>>)) - 1)..(Len(clean) - 2) : clean[i] # Q

\* the outward chunks of the valid lines among lines, in order
ValidOutputs(lines) ==
    LET valid == SelectSeq(lines, ValidLine)
    IN  [i \in 1..Len(valid) |-> CleanLine(valid[i]) \o <<LF>>]

\* C8: a line that is not JSON is dropped without a trace: processing a
\* chunk leaves the outward stream in the state it had, enqueues the
\* line of every valid frame of the chunk, in order, on a readable stream,
\* and the pump goes on reading.
MalformedLineIsSkipped ==
    [][pos' > pos =>
         /\ outState' = outState
         /\ pump' = "awaitRead"
         /\ \A bytes \in {decoder \o SubSeq(upstream', pos + 1, pos')} :
              \A lines \in {Split(bytes)} :
                out' = out \o (IF outState = "readable" THEN ValidOutputs(lines) ELSE <<>>)]_vars

MalformedLineIsSkippedWitness ==
    /\ upstream = Flatten(<<"malformed", "a">>)
    /\ pos = Len(upstream)
    /\ outState = "readable"
    /\ pump = "awaitRead"
    /\ out = <<OutputLine(Frame("a"))>>

\* a line that is a JSON object carrying the response field, whatever its
\* value: stripped of "data: " and of blanks it is {"response":"payload"},
\* the payload possibly empty
CarriesResponse(line) ==
    \E clean \in {CleanLine(line)} :
        /\ Len(clean) >= Len(ObjectText(<<>>))
        /\ clean = ObjectText(SubSeq(clean, Len(ObjectText(<<>>)) - 1, Len(clean) - 2))
        /\ \A i \in (Len(ObjectText(<<>>)) - 1)..(Len(clean) - 2) : clean[i] # Q

\* one outward line per line that carries the response field, in order
ResponseOutputs(lines) ==
    LET carrying == SelectSeq(lines, CarriesResponse)
    IN  [i \in 1..Len(carrying) |-> CleanLine(carrying[i]) \o <<LF>>]

\* C15: on a readable stream every line of a chunk that parses as an object
\* carrying the response field, the empty string included, gives exactly
\* one outward line, the object with that field alone and a line feed, and
\* every other line gives none.
EveryResponseLineIsEmitted ==
    [][(pos' > pos /\ outState = "readable") =>
         \A bytes \in {decoder \o SubSeq(upstream', pos + 1, pos')} :
           \A lines \in {Split(bytes)} :
             out' = out \o ResponseOutputs(lines)]_vars

\* C16: an outward line is emitted only for text whose line feed has been
\* read: the outward lines are lines owed to the terminated lines read so
\* far, no more of them than those, nothing for an unterminated tail; and
\* after end-of-input the stream is closed.
NothingForUnterminatedText ==
    /\ EndedCleanly => outState = "closed"
    /\ \A read \in {SubSeq(upstream, 1, pos)} :
         \A owed \in {ResponseOutputs(SubSeq(Split(read), 1, FrameCount(read)))} :
           /\ Len(out) <= Len(owed)
           /\ \A i \in 1..Len(out) : \E j \in 1..Len(owed) : out[i] = owed[j]

\* C17: at most one upstream read is outstanding; it was requested when
\* every line enqueued so far had been enqueued, so the next read follows
\* the lines of the chunk before it; and the lines of a chunk are added
\* after the lines of the chunks before it, which stay as they were.
PullLoopInOrder ==
    [][/\ Len(reads') <= 1
       /\ (pump' = "awaitRead") <=> (Len(reads') = 1)
       /\ reads' # <<>> => reads'[1] = Len(out')
       /\ Len(out') >= Len(out)
       /\ SubSeq(out', 1, Len(out)) = out
       /\ Len(out') > Len(out) => (pos' > pos /\ Len(reads) = 1)]_vars

PullLoopInOrderWitness ==
    /\ upstream = Flatten(<<"a", "a">>)
    /\ pos = Len(upstream) - 1
    /\ out = <<OutputLine(Frame("a")), OutputLine(Frame("a"))>>
    /\ reads = <<2>>
    /\ pump = "awaitRead"

\* the bytes a decoder that has seen bytes[1..p] of one stream holds back
OwnPending(bytes, p) ==
    IF p > 0 /\ bytes[p] = "C3" THEN <<"C3">> ELSE <<>>

\* the outward lines of the chunk bytes[p+1..q] of a stream read alone
AloneOutputs(bytes, p, q, readable) ==
    ProcessLines(Split(DecodeBytes(OwnPending(bytes, p) \o SubSeq(bytes, p + 1, q)).text),
                 readable)

\* C18: with the pumps of two requests interleaved, a step of one pump adds
\* to its own outward stream the lines its chunk gives when its upstream is
\* read alone, and leaves the upstream, the position, the decoder and the
\* outward stream of the other request as they were.
RequestsAreIndependent ==
    [][/\ pos' > pos =>
            /\ peer' = peer
            /\ \A lines \in {AloneOutputs(upstream, pos, pos', outState = "readable")} :
                   out' = out \o lines
       /\ peer'.pos > peer.pos =>
            /\ UNCHANGED <<upstream, pos, decoder, outState, out, pump>>
            /\ \A lines \in {AloneOutputs(peer.upstream, peer.pos, peer'.pos,
                                          peer.outState = "readable")} :
                   peer'.out = peer.out \o lines
       /\ upstream' = upstream
       /\ peer'.upstream = peer.upstream]_vars

RequestsAreIndependentWitness ==
    /\ peer # NoValue
    /\ splitChar
    /\ pump = "returned"
    /\ out = <<>>
    /\ peer.pump = "returned"
    /\ peer.out = <<OutputLine(Frame("e-acute"))>>

\* C19: within a request each collaborator is called at most once, two
\* calls at most in all; a failure is answered once, by an error response
\* with no stream or, on a stream already returned, by erroring that
\* stream with no read retried; no request gets both an error response
\* and a stream.
NoRetries ==
    /\ ragCalls <= 1
    /\ assetCalls <= 1
    /\ ragCalls + assetCalls <= 2
    /\ responses <= 1
    /\ ragOutcome \in {"throws", "locked", "nobody"} =>
           (responses = 1 /\ response.status = 500 /\ outState = "none")
    /\ (response # NoValue /\ response.status >= 400) =>
           (outState = "none" /\ pump = "idle" /\ reads = <<>>)
    /\ outState # "none" => (response = StreamResponse /\ responses = 1)
    /\ outState = "errored" => readFailed
    /\ readFailed => (pump = "returned" /\ reads = <<>>)

NoRetriesWitness ==
    /\ ragCalls = 1
    /\ responses = 1
    /\ response = StreamResponse
    /\ readFailed
    /\ outState = "errored"
    /\ out # <<>>
    /\ reads = <<>>

\* C20: the outward stream reaches at most one terminal state, closed or
\* errored, and keeps it; nothing is enqueued on a stream in a terminal
\* state; and once the pump has seen end-of-input or a failed read it has
\* returned, with no read outstanding, and reads no more.
TerminalStateIsFinal ==
    [][/\ outState \in {"closed", "errored"} => (outState' = outState /\ out' = out)
       /\ (readFailed' \/ (outState' = "closed" /\ ~cancelled')) =>
              (pump' = "returned" /\ reads' = <<>>)
       /\ pump = "returned" =>
              (pump' = "returned" /\ reads' = <<>> /\ pos' = pos /\ upstream' = upstream)]_vars

TerminalStateIsFinalWitness ==
    /\ upstream = Flatten(<<"a", "a">>)
    /\ pos = Len(upstream)
    /\ out = <<OutputLine(Frame("a"))>>
    /\ cancelled
    /\ readAfterCancel
    /\ readFailed
    /\ outState = "closed"
    /\ pump = "returned"

\* C9: after a failed read the outward stream is errored, never closed,
\* and the pump has returned: no read follows and the failed one is not
\* retried.
ReadFailureErrorsStream ==
    readFailed => (outState = "errored" /\ pump = "returned")

\* C10: once the consumer has cancelled the outward stream, no upstream
\* read is issued.
CancellationStopsReads == ~readAfterCancel

====
